---- MODULE Spec2Model ----
(***************************************************************************)
(* Model of the Kite MCP protocol client (kite_mcp_client.py):            *)
(* KiteMCPClient with its transport session, the three request            *)
(* operations, the handshake retry loop and the callback extraction.      *)
(*                                                                         *)
(* Python strings are sequences of one-character strings, Python values   *)
(* (decoded JSON, None) are tagged records, so that "in", split and strip *)
(* are computed as Python computes them.                                   *)
(***************************************************************************)
EXTENDS Integers, Sequences, FiniteSets, TLC

(* ------------------------------------------------------------------ *)
(* Python values                                                       *)
(* ------------------------------------------------------------------ *)
PyNone == [t |-> "none"]

PyStr(s) == [t |-> "str", s |-> s]

PyInt(i) == [t |-> "int", i |-> i]

PyList(l) == [t |-> "list", l |-> l]

\* a dict is a sequence of <<key, value>> pairs, keys being strings
PyDict(d) == [t |-> "dict", d |-> d]

(* ------------------------------------------------------------------ *)
(* String literals of the source                                       *)
(* ------------------------------------------------------------------ *)
LOGIN_DOMAIN == <<"h","t","t","p","s",":","/","/","k","i","t","e",".","z","e","r","o","d","h","a",".","c","o","m","/","c","o","n","n","e","c","t","/","l","o","g","i","n">>

URL_MARKER == <<"U","R","L",":"," ">>

SESSION_MARKER == <<"s","e","s","s","i","o","n","_","i","d","=">>

K_result == <<"r","e","s","u","l","t">>

K_content == <<"c","o","n","t","e","n","t">>

K_text == <<"t","e","x","t">>

AMP == <<"&">>

NEWLINE == <<"\n">>

Whitespace == {" ", "\n", "\t", "\r"}

(* ------------------------------------------------------------------ *)
(* str operations: "sub in s", s.split(sep), s.strip()                 *)
(* ------------------------------------------------------------------ *)
MatchAt(s, sub, i) ==
    /\ i + Len(sub) - 1 <= Len(s)
    /\ \A j \in 1..Len(sub) : s[i + j - 1] = sub[j]

\* index of the first occurrence of sub in s, 0 when there is none
Find(s, sub) ==
    LET hits == {i \in 1..Len(s) : MatchAt(s, sub, i)}
    IN  IF hits = {} THEN 0 ELSE CHOOSE i \in hits : \A k \in hits : i <= k

Contains(s, sub) == Len(sub) = 0 \/ Find(s, sub) # 0

RECURSIVE PySplit(_, _)
PySplit(s, sep) ==
    LET i == Find(s, sep)
    IN  IF i = 0 THEN <<s>>
        ELSE <<SubSeq(s, 1, i - 1)>> \o PySplit(SubSeq(s, i + Len(sep), Len(s)), sep)

RECURSIVE LStrip(_)
LStrip(s) == IF Len(s) > 0 /\ Head(s) \in Whitespace THEN LStrip(Tail(s)) ELSE s

RECURSIVE RStrip(_)
RStrip(s) ==
    IF Len(s) > 0 /\ s[Len(s)] \in Whitespace THEN RStrip(SubSeq(s, 1, Len(s) - 1)) ELSE s

PyStrip(s) == RStrip(LStrip(s))

(* ------------------------------------------------------------------ *)
(* Operations on Python values. "exc" is a raised exception.           *)
(* ------------------------------------------------------------------ *)
HasKey(d, k) == \E i \in 1..Len(d) : d[i][1] = k

GetKey(d, k) == d[CHOOSE i \in 1..Len(d) : d[i][1] = k][2]

\* needle in hay, for a str needle: "T", "F" or "exc" (TypeError)
PyIn(needle, hay) ==
    CASE hay.t = "str"  -> IF Contains(hay.s, needle) THEN "T" ELSE "F"
      [] hay.t = "list" -> IF \E i \in 1..Len(hay.l) :
                                 hay.l[i].t = "str" /\ hay.l[i].s = needle
                           THEN "T" ELSE "F"
      [] hay.t = "dict" -> IF HasKey(hay.d, needle) THEN "T" ELSE "F"
      [] OTHER          -> "exc"


(* ------------------------------------------------------------------ *)
(* MCPResponse (dataclass): data, error and login_url default to None  *)
(* ------------------------------------------------------------------ *)
MCPResponse(success, data, error, login_url) ==
    [success |-> success, data |-> data, error |-> error, login_url |-> login_url]

\* outcome of a block of code: a value, or a raised exception with str(e)
Value(v) == [exc |-> FALSE, val |-> v, msg |-> <<>>]

Raise(m) == [exc |-> TRUE, val |-> PyNone, msg |-> m]

\* what a call hands to its caller: a returned value or an escaped exception
Returned(v) == [raised |-> FALSE, val |-> v]

Escaped == [raised |-> TRUE, val |-> PyNone]

(* ------------------------------------------------------------------ *)
(* Inputs: decoded response bodies, server behaviours, callback texts  *)
(* ------------------------------------------------------------------ *)
\* a tools/call result whose content list holds one element with this text
LoginBody(text) ==
    PyDict(<< <<K_result,
                PyDict(<< <<K_content, PyList(<< PyDict(<< <<K_text, text>> >>) >>)>> >>)>> >>)

T_please == <<"P","l","e","a","s","e"," ","l","o","g","i","n","."," ">>

T_query == <<"?","x","=","1">>

T_more == <<"m","o","r","e"," ","t","e","x","t">>

T_norel == <<"n","o"," ","r","e","l","e","v","a","n","t"," ","c","o","n","t","e","n","t">>

\* "Please login. URL: https://kite.zerodha.com/connect/login?x=1\nmore text"
T_marked == T_please \o URL_MARKER \o LOGIN_DOMAIN \o T_query \o NEWLINE \o T_more

\* " https://kite.zerodha.com/connect/login?x=1 \n" (no marker)
T_plain == <<" ">> \o LOGIN_DOMAIN \o T_query \o <<" ">> \o NEWLINE

\* "URL: \nhttps://kite.zerodha.com/connect/login" (marker, then a line break)
T_split == URL_MARKER \o NEWLINE \o LOGIN_DOMAIN

\* "URL: see URL: https://kite.zerodha.com/connect/login\nmore text"
T_twice ==
    URL_MARKER \o <<"s","e","e"," ">> \o URL_MARKER \o LOGIN_DOMAIN \o NEWLINE \o T_more

Payloads ==
    << PyNone,
       LoginBody(PyStr(T_marked)),
       LoginBody(PyStr(T_plain)),
       LoginBody(PyStr(T_norel)),
       LoginBody(PyStr(T_split)),
       PyDict(<< <<K_content, PyInt(1)>> >>),
       PyDict(<< <<K_result, PyDict(<< <<K_content, PyList(<<>>)>> >>)>> >>),
       PyDict(<< <<K_result, PyDict(<< <<K_content, PyList(<<PyStr(LOGIN_DOMAIN)>>)>> >>)>> >>),
       LoginBody(PyNone),
       LoginBody(PyList(<<PyStr(LOGIN_DOMAIN)>>)),
       PyDict(<< <<K_result, PyStr(K_content)>> >>),
       PyDict(<< <<K_result, PyDict(<< <<K_content, PyList(<<PyDict(<< <<K_result, PyInt(0)>> >>)>>)>> >>)>> >>),
       PyList(<<PyStr(K_result)>>),
       PyInt(7),
       LoginBody(PyStr(T_twice)) >>

\* body 0 is a body that response.json() cannot decode
Bodies == 0..Len(Payloads)

Statuses == {200, 204, 500}

\* str(e) of a transport fault; an asyncio.TimeoutError has an empty message
FaultMessages == {<<>>, <<"Cannot connect to host">>}

ServerOutcomes ==
    {[kind |-> "fault", status |-> 0, body |-> 0, msg |-> m] : m \in FaultMessages}
    \cup {[kind |-> "resp", status |-> s, body |-> 0, msg |-> <<>>] : s \in Statuses \ {200}}
    \cup {[kind |-> "resp", status |-> 200, body |-> b, msg |-> <<>>] : b \in Bodies}

C_host == <<"h","t","t","p","s",":","/","/","h","o","s","t","/","c","b","?","s","t","a","t","u","s","=","s","u","c","c","e","s","s","&">>

C_abc == <<"a","b","c","1","2","3">>

C_xyz == <<"x","y","z","9">>

C_foobar == <<"&","f","o","o","=","b","a","r">>

Callbacks ==
    << PyStr(C_host \o SESSION_MARKER \o C_abc \o C_foobar),
       PyStr(C_host \o SESSION_MARKER \o C_xyz),
       PyStr(C_host \o C_abc \o C_foobar),
       PyStr(C_host \o SESSION_MARKER \o C_abc \o SESSION_MARKER \o C_xyz),
       PyStr(C_host \o SESSION_MARKER),
       PyStr(<<>>),
       PyNone,
       PyList(<<PyStr(SESSION_MARKER)>>) >>


(* ------------------------------------------------------------------ *)
(* Pieces of Python the operations use                                 *)
(* ------------------------------------------------------------------ *)
\* v[key] with a str key
Subscript(v, key) ==
    IF v.t = "dict"
    THEN IF HasKey(v.d, key) THEN Value(GetKey(v.d, key)) ELSE Raise(<<"KeyError">>)
    ELSE Raise(<<"TypeError: indices must be integers">>)

\* v.get(key, default)
DictGet(v, key, default) ==
    IF v.t = "dict"
    THEN Value(IF HasKey(v.d, key) THEN GetKey(v.d, key) ELSE default)
    ELSE Raise(<<"AttributeError: no attribute 'get'">>)

\* v.strip()
StripOf(v) ==
    IF v.t = "str" THEN Value(PyStr(PyStrip(v.s)))
    ELSE Raise(<<"AttributeError: no attribute 'strip'">>)

StatusText_Dropped(n) == <<>>

\* f"{n}" of an int, as one piece of a message
StatusText(n) == <<ToString(n)>>

\* self.session.post(...): None has no post, a closed session refuses,
\* an open one sends the request and gets the server's behaviour
Post(sess, out) ==
    IF sess = "none" THEN Raise(<<"'NoneType' object has no attribute 'post'">>)
    ELSE IF sess = "closed" THEN Raise(<<"Session is closed">>)
    ELSE IF out.kind = "fault" THEN Raise(out.msg)
    ELSE Value(out)

Sends_Closed(sess) == sess # "none"

\* a request leaves the client only through an open session
Sends(sess) == sess = "open"

\* await response.json()
ResponseJson(out) ==
    IF out.body = 0 THEN Raise(<<"Attempt to decode JSON with unexpected mimetype">>)
    ELSE Value(Payloads[out.body])

\* what happened on the wire in one attempt
Classify(sess, out) ==
    IF ~Sends(sess) THEN "nosession"
    ELSE IF out.kind = "fault" THEN "fault"
    ELSE IF out.status # 200 THEN "status"
    ELSE IF out.body = 0 THEN "undecodable"
    ELSE "ok"

LogEntry(sess, out) ==
    [cls |-> Classify(sess, out),
     status |-> IF Sends(sess) THEN out.status ELSE 0,
     body |-> IF Sends(sess) THEN out.body ELSE 0]

(* ------------------------------------------------------------------ *)
(* initialize_connection                                               *)
(* ------------------------------------------------------------------ *)
retry_count == 3

RECURSIVE Pow2(_)
Pow2(k) == IF k = 0 THEN 1 ELSE 2 * Pow2(k - 1)

InitAttemptBody_Any2xx(sess, out) ==
    LET p == Post(sess, out)
    IN  IF p.exc THEN [go |-> "next", caught |-> TRUE, val |-> PyNone]
        ELSE IF out.status >= 200 /\ out.status < 300
        THEN LET j == ResponseJson(out)
             IN  IF j.exc
                 THEN [go |-> "return", caught |-> FALSE,
                       val |-> MCPResponse(TRUE, PyNone, PyNone, PyNone)]
                 ELSE [go |-> "return", caught |-> FALSE,
                       val |-> MCPResponse(TRUE, j.val, PyNone, PyNone)]
        ELSE [go |-> "next", caught |-> FALSE, val |-> PyNone]

\* one iteration of the retry loop: "return" with the envelope, or "next";
\* caught tells whether the iteration ended in the except clause
InitAttemptBody(sess, out) ==
    LET p == Post(sess, out)
    IN  IF p.exc THEN [go |-> "next", caught |-> TRUE, val |-> PyNone]
        ELSE IF out.status = 200
        THEN LET j == ResponseJson(out)
             IN  IF j.exc THEN [go |-> "next", caught |-> TRUE, val |-> PyNone]
                 ELSE [go |-> "return", caught |-> FALSE,
                       val |-> MCPResponse(TRUE, j.val, PyNone, PyNone)]
        ELSE [go |-> "next", caught |-> FALSE, val |-> PyNone]

InitBackoff_Always(it, k) ==
    IF it.caught THEN <<[after |-> k, dur |-> Pow2(k)]>> ELSE <<>>

\* the backoff of the except clause after attempt k: <<2^k>> or no sleep
InitBackoff(it, k) ==
    IF it.caught /\ k < retry_count - 1 THEN <<[after |-> k, dur |-> Pow2(k)]>> ELSE <<>>

InitExhausted ==
    MCPResponse(FALSE, PyNone,
                PyStr(<<"Failed to initialize MCP connection after all retries">>), PyNone)

\* the outer try/except of the operation
InitHandler(o) ==
    IF o.exc THEN Returned(MCPResponse(FALSE, PyNone, PyStr(o.msg), PyNone))
    ELSE Returned(o.val)

(* ------------------------------------------------------------------ *)
(* request_login                                                       *)
(* ------------------------------------------------------------------ *)
InvalidFormat ==
    MCPResponse(FALSE, PyNone, PyStr(<<"Invalid response format">>), PyNone)

LoginSuccess_WithData(login_url) == MCPResponse(TRUE, login_url, PyNone, login_url)

\* line 125: the success envelope of request_login
LoginSuccess(login_url) == MCPResponse(TRUE, PyNone, PyNone, login_url)

\* line 123: the text after "URL: " up to the line break, else the whole text
LoginUrl(login_info) ==
    IF PyIn(URL_MARKER, login_info) = "T"
    THEN IF login_info.t = "str"
         THEN Value(PyStr(PySplit(PySplit(login_info.s, URL_MARKER)[2], NEWLINE)[1]))
         ELSE Raise(<<"AttributeError: no attribute 'split'">>)
    ELSE Value(login_info)

\* lines 116-128 on the decoded body
ExtractLogin(result) ==
    LET in1 == PyIn(K_result, result)
    IN  IF in1 = "exc" THEN Raise(<<"TypeError: not iterable">>)
        ELSE IF in1 = "F" THEN Value(InvalidFormat)
        ELSE
        LET r == Subscript(result, K_result)
        IN  IF r.exc THEN r ELSE
        LET in2 == PyIn(K_content, r.val)
        IN  IF in2 = "exc" THEN Raise(<<"TypeError: not iterable">>)
            ELSE IF in2 = "F" THEN Value(InvalidFormat)
            ELSE
        LET c == Subscript(r.val, K_content)
        IN  IF c.exc THEN c
            ELSE IF ~(c.val.t = "list" /\ Len(c.val.l) > 0) THEN Value(InvalidFormat)
            ELSE
        LET info == DictGet(c.val.l[1], K_text, PyStr(<<>>))
        IN  IF info.exc THEN info ELSE
        LET in3 == PyIn(LOGIN_DOMAIN, info.val)
        IN  IF in3 = "exc" THEN Raise(<<"TypeError: not iterable">>)
            ELSE IF in3 = "F" THEN Value(InvalidFormat)
            ELSE
        LET u == LoginUrl(info.val)
        IN  IF u.exc THEN u ELSE
        LET st == StripOf(u.val)
        IN  IF st.exc THEN st
            ELSE Value(LoginSuccess(st.val))

RequestLoginBody(sess, out) ==
    LET p == Post(sess, out)
    IN  IF p.exc THEN p
        ELSE IF out.status = 200
        THEN LET j == ResponseJson(out)
             IN  IF j.exc THEN j ELSE ExtractLogin(j.val)
        ELSE Value(MCPResponse(FALSE, PyNone,
                   PyStr(<<"Login request failed with status ">> \o StatusText(out.status)),
                   PyNone))

RequestLoginHandler_Reraise(o) ==
    IF o.exc THEN Escaped ELSE Returned(o.val)

\* the try/except of the operation
RequestLoginHandler(o) ==
    IF o.exc
    THEN Returned(MCPResponse(FALSE, PyNone, PyStr(<<"Login request error: ">> \o o.msg), PyNone))
    ELSE Returned(o.val)

(* ------------------------------------------------------------------ *)
(* get_portfolio_recommendation                                        *)
(* ------------------------------------------------------------------ *)
PortfolioBody(sess, out) ==
    LET p == Post(sess, out)
    IN  IF p.exc THEN p
        ELSE IF out.status = 200
        THEN LET j == ResponseJson(out)
             IN  IF j.exc THEN j ELSE Value(MCPResponse(TRUE, j.val, PyNone, PyNone))
        ELSE Value(MCPResponse(FALSE, PyNone,
                   PyStr(<<"Portfolio request failed with status ">> \o StatusText(out.status)),
                   PyNone))

PortfolioHandler_NoError(o) ==
    IF o.exc THEN Returned(MCPResponse(FALSE, PyNone, PyNone, PyNone))
    ELSE Returned(o.val)

PortfolioHandler(o) ==
    IF o.exc
    THEN Returned(MCPResponse(FALSE, PyNone,
                  PyStr(<<"Portfolio recommendation error: ">> \o o.msg), PyNone))
    ELSE Returned(o.val)

(* ------------------------------------------------------------------ *)
(* extract_session_id_from_callback                                    *)
(* ------------------------------------------------------------------ *)
\* line 198: callback_url.split("session_id=")[1].split("&")[0]
SessionIdOf(callback_url) ==
    IF callback_url.t = "str"
    THEN Value(PyStr(PySplit(PySplit(callback_url.s, SESSION_MARKER)[2], AMP)[1]))
    ELSE Raise(<<"AttributeError: no attribute 'split'">>)

ExtractSession_IdOnly(callback_url, sid, auth) ==
    LET in1 == PyIn(SESSION_MARKER, callback_url)
        Same(v) == [session_id |-> sid, authenticated |-> auth, ret |-> Returned(v)]
    IN  IF in1 # "T" THEN Same(PyNone)
        ELSE LET id == SessionIdOf(callback_url)
             IN  IF id.exc THEN Same(PyNone)
                 ELSE [session_id |-> id.val, authenticated |-> auth,
                       ret |-> Returned(id.val)]

ExtractSession_ResetOnFail(callback_url, sid, auth) ==
    LET in1 == PyIn(SESSION_MARKER, callback_url)
        Reset == [session_id |-> PyNone, authenticated |-> FALSE, ret |-> Returned(PyNone)]
    IN  IF in1 # "T" THEN Reset
        ELSE LET id == SessionIdOf(callback_url)
             IN  IF id.exc THEN Reset
                 ELSE [session_id |-> id.val, authenticated |-> TRUE,
                       ret |-> Returned(id.val)]

ExtractSession_FlagOnly(callback_url, sid, auth) ==
    LET in1 == PyIn(SESSION_MARKER, callback_url)
        Same(v) == [session_id |-> sid, authenticated |-> auth, ret |-> Returned(v)]
    IN  IF in1 # "T" THEN Same(PyNone)
        ELSE LET id == SessionIdOf(callback_url)
             IN  IF id.exc THEN Same(PyNone)
                 ELSE [session_id |-> sid, authenticated |-> TRUE,
                       ret |-> Returned(id.val)]

\* the fields and the return value after the call
ExtractSession(callback_url, sid, auth) ==
    LET in1 == PyIn(SESSION_MARKER, callback_url)
        Same(v) == [session_id |-> sid, authenticated |-> auth, ret |-> Returned(v)]
    IN  IF in1 = "exc" THEN Same(PyNone)
        ELSE IF in1 = "F" THEN Same(PyNone)
        ELSE LET id == SessionIdOf(callback_url)
             IN  IF id.exc THEN Same(PyNone)
                 ELSE [session_id |-> id.val, authenticated |-> TRUE,
                       ret |-> Returned(id.val)]


(* ------------------------------------------------------------------ *)
(* State                                                               *)
(* ------------------------------------------------------------------ *)
\* session:        self.session: "none", "open" or "closed"
\* session_id:     self.session_id
\* authenticated:  self.authenticated
\* pc:             "idle", or "init" inside the handshake retry loop
\* attempt:        loop variable of the retry loop
\* call:           the running or last call: requests sent, sleeps, attempts
\* ret:            what the last finished call handed to its caller
VARIABLES session, session_id, authenticated, pc, attempt, call, ret, st, app, result, logouts, sent, logins

\* the client object
client == <<session, session_id, authenticated, pc, attempt, call, ret>>

\* the application (streamlit_app.py)
\* st:       st.session_state
\* app:      where the script run is: "idle" between runs, "c_..." inside
\*           initialize_kite_mcp, "verify" with the Verify button rendered,
\*           "a_..." inside get_mcp_recommendation
\* result:   the (success, value) pair a helper handed to the script
\* logouts:  Logout handlers run since the last other user event
appvars == <<st, app, result, logouts>>

\* observations of the wire and of earlier runs
\* sent:        id of the latest request on the wire, largest id before it
\* logins:  (status, body) and result of the previous answered request_login
ghosts == <<sent, logins>>

vars == <<session, session_id, authenticated, pc, attempt, call, ret, st, app, result, logouts, sent, logins>>

\* sess is self.session as the call found it
NewCall(op, sess) ==
    [op |-> op, sess |-> sess, done |-> FALSE, requests |-> 0, sleeps |-> <<>>, log |-> <<>>]

NoRet == Returned(PyNone)

\* KiteMCPClient.__init__
ClientInit ==
    /\ session = "none"
    /\ session_id = PyNone
    /\ authenticated = FALSE
    /\ pc = "idle"
    /\ attempt = 0
    /\ call = NewCall("none", "none")
    /\ ret = NoRet

\* a key st.session_state does not hold yet
PyUnset == [t |-> "unset"]

\* st.session_state after the first script run: mcp_recommendation is not set
StInit ==
    [authenticated |-> FALSE, login_url |-> PyNone, portfolio_result |-> PyNone,
     mcp_recommendation |-> PyUnset]

NoResult == [ok |-> FALSE, raised |-> FALSE, val |-> PyNone]

NoneSent == [last |-> 0, before |-> 0]

NoLogin ==
    [seen |-> FALSE, status |-> 0, body |-> 0, auth |-> FALSE,
     success |-> FALSE, login_url |-> PyNone]

NoLogins == [first |-> NoLogin, obtained |-> FALSE]

Init ==
    /\ ClientInit
    /\ st = StInit
    /\ app = "idle"
    /\ result = NoResult
    /\ logouts = 0
    /\ sent = NoneSent
    /\ logins = NoLogins

\* __aenter__
AEnter ==
    /\ pc = "idle"
    /\ session' = "open"
    /\ UNCHANGED <<session_id, authenticated, pc, attempt, call, ret>>

AExit_NoClose ==
    /\ pc = "idle"
    /\ UNCHANGED <<session, session_id, authenticated, pc, attempt, call, ret>>

\* __aexit__
AExit ==
    /\ pc = "idle"
    /\ session' = IF session = "none" THEN "none" ELSE "closed"
    /\ UNCHANGED <<session_id, authenticated, pc, attempt, call, ret>>

\* initialize_connection is called: up to the head of the retry loop
initialize_connection ==
    /\ pc = "idle"
    /\ pc' = "init"
    /\ attempt' = 0
    /\ call' = NewCall("initialize_connection", session)
    /\ ret' = NoRet
    /\ UNCHANGED <<session, session_id, authenticated>>

\* one iteration of the retry loop, with its backoff sleep; after the last
\* iteration the loop falls through to the exhaustion return
InitAttempt(out) ==
    /\ pc = "init"
    /\ LET it == InitAttemptBody(session, out)
           c1 == [call EXCEPT
                    !.requests = @ + (IF Sends(session) THEN 1 ELSE 0),
                    !.log = Append(@, LogEntry(session, out)),
                    !.sleeps = @ \o InitBackoff(it, attempt)]
       IN  IF it.go = "return"
           THEN /\ ret' = InitHandler(Value(it.val))
                /\ call' = [c1 EXCEPT !.done = TRUE]
                /\ pc' = "idle"
                /\ attempt' = attempt
           ELSE IF attempt + 1 < retry_count
           THEN /\ ret' = ret
                /\ call' = c1
                /\ pc' = "init"
                /\ attempt' = attempt + 1
           ELSE /\ ret' = InitHandler(Value(InitExhausted))
                /\ call' = [c1 EXCEPT !.done = TRUE]
                /\ pc' = "idle"
                /\ attempt' = attempt
    /\ UNCHANGED <<session, session_id, authenticated>>

request_login_Stateful(out) ==
    /\ pc = "idle"
    /\ ret' = IF authenticated
              THEN Returned(MCPResponse(FALSE, PyNone, PyStr(<<"Already authenticated">>), PyNone))
              ELSE RequestLoginHandler(RequestLoginBody(session, out))
    /\ call' = [NewCall("request_login", session) EXCEPT
                  !.done = TRUE,
                  !.requests = IF Sends(session) THEN 1 ELSE 0,
                  !.log = <<LogEntry(session, out)>>]
    /\ UNCHANGED <<session, session_id, authenticated, pc, attempt>>

request_login(out) ==
    /\ pc = "idle"
    /\ ret' = RequestLoginHandler(RequestLoginBody(session, out))
    /\ call' = [NewCall("request_login", session) EXCEPT
                  !.done = TRUE,
                  !.requests = IF Sends(session) THEN 1 ELSE 0,
                  !.log = <<LogEntry(session, out)>>]
    /\ UNCHANGED <<session, session_id, authenticated, pc, attempt>>

get_portfolio_recommendation_Expires(out) ==
    /\ pc = "idle"
    /\ ret' = PortfolioHandler(PortfolioBody(session, out))
    /\ call' = [NewCall("get_portfolio_recommendation", session) EXCEPT
                  !.done = TRUE,
                  !.requests = IF Sends(session) THEN 1 ELSE 0,
                  !.log = <<LogEntry(session, out)>>]
    /\ IF ret'.val.success
       THEN UNCHANGED <<session_id, authenticated>>
       ELSE session_id' = PyNone /\ authenticated' = FALSE
    /\ UNCHANGED <<session, pc, attempt>>

get_portfolio_recommendation(out) ==
    /\ pc = "idle"
    /\ ret' = PortfolioHandler(PortfolioBody(session, out))
    /\ call' = [NewCall("get_portfolio_recommendation", session) EXCEPT
                  !.done = TRUE,
                  !.requests = IF Sends(session) THEN 1 ELSE 0,
                  !.log = <<LogEntry(session, out)>>]
    /\ UNCHANGED <<session, session_id, authenticated, pc, attempt>>

extract_session_id_from_callback(cb) ==
    /\ pc = "idle"
    /\ LET e == ExtractSession(Callbacks[cb], session_id, authenticated)
       IN  /\ session_id' = e.session_id
           /\ authenticated' = e.authenticated
           /\ ret' = e.ret
    /\ call' = [NewCall("extract_session_id_from_callback", session) EXCEPT
                  !.done = TRUE, !.log = <<[cls |-> "arg", status |-> 0, body |-> cb]>>]
    /\ UNCHANGED <<session, pc, attempt>>

\* one iteration of the handshake loop of a client used on its own
HandshakeStep == \E out \in ServerOutcomes : InitAttempt(out) /\ UNCHANGED <<appvars, ghosts>>

\* a client used on its own: any operation at any time
Next ==
    \/ AEnter /\ UNCHANGED <<appvars, ghosts>>
    \/ AExit /\ UNCHANGED <<appvars, ghosts>>
    \/ initialize_connection /\ UNCHANGED <<appvars, ghosts>>
    \/ HandshakeStep
    \/ \E out \in ServerOutcomes : request_login(out) /\ UNCHANGED <<appvars, ghosts>>
    \/ \E out \in ServerOutcomes :
          get_portfolio_recommendation(out) /\ UNCHANGED <<appvars, ghosts>>
    \/ \E cb \in 1..Len(Callbacks) :
          extract_session_id_from_callback(cb) /\ UNCHANGED <<appvars, ghosts>>

Spec == Init /\ [][Next]_vars

\* every await of the handshake completes: a post within the session's total
\* timeout, a backoff sleep after its delay
FairSpec == Spec /\ WF_vars(HandshakeStep)

(* ------------------------------------------------------------------ *)
(* The request envelopes on the wire                                   *)
(* ------------------------------------------------------------------ *)
init_payload == [jsonrpc |-> "2.0", id |-> 1, method |-> "initialize"]

login_payload == [jsonrpc |-> "2.0", id |-> 2, method |-> "tools/call", name |-> "login"]

recommendation_payload ==
    [jsonrpc |-> "2.0", id |-> 3, method |-> "tools/call", name |-> "get_investment_advice"]

\* session.post(..., json=payload): the id of the envelope just sent, and the
\* largest id sent before it
Wire(s, sess, payload) ==
    IF Sends(sess)
    THEN [last |-> payload.id, before |-> IF s.last > s.before THEN s.last ELSE s.before]
    ELSE s

WireInitAttempt ==
    \E out \in ServerOutcomes :
        /\ InitAttempt(out)
        /\ sent' = Wire(sent, session, init_payload)
        /\ UNCHANGED <<appvars, logins>>

WireLogin ==
    \E out \in ServerOutcomes :
        /\ request_login(out)
        /\ sent' = Wire(sent, session, login_payload)
        /\ UNCHANGED <<appvars, logins>>

WirePortfolio ==
    \E out \in ServerOutcomes :
        /\ get_portfolio_recommendation(out)
        /\ sent' = Wire(sent, session, recommendation_payload)
        /\ UNCHANGED <<appvars, logins>>

\* a client used on its own, with the ids of its requests observed
WireNext ==
    \/ AEnter /\ UNCHANGED <<appvars, ghosts>>
    \/ AExit /\ UNCHANGED <<appvars, ghosts>>
    \/ initialize_connection /\ UNCHANGED <<appvars, ghosts>>
    \/ WireInitAttempt
    \/ WireLogin
    \/ WirePortfolio
    \/ \E cb \in 1..Len(Callbacks) :
          extract_session_id_from_callback(cb) /\ UNCHANGED <<appvars, ghosts>>

WireSpec == Init /\ [][WireNext]_vars

(* ------------------------------------------------------------------ *)
(* Runs of request_login compared                                      *)
(* ------------------------------------------------------------------ *)
\* the server answered the request
Answered(sess, out) == Sends(sess) /\ out.kind = "resp"

\* the first answered run of request_login is kept for comparison with the
\* later ones; obtained says whether some run has returned a login URL
Remember(l, sess, out, auth, r) ==
    [first |-> IF ~l.first.seen /\ Answered(sess, out)
               THEN [seen |-> TRUE, status |-> out.status, body |-> out.body,
                     auth |-> auth, success |-> r.success, login_url |-> r.login_url]
               ELSE l.first,
     obtained |-> l.obtained \/ (r.success /\ r.login_url # PyNone)]

RunLogin(out) ==
    /\ request_login(out)
    /\ logins' = Remember(logins, session, out, authenticated, ret'.val)
    /\ UNCHANGED <<appvars, sent>>

\* the server outcomes the compared runs draw from: a fault, a 500, and 200
\* with an undecodable body, JSON null, and the texts with a marked URL, a
\* bare URL and "no relevant content"
RunOutcomes ==
    {o \in ServerOutcomes :
        /\ o.msg = <<>>
        /\ o.status # 204
        /\ o.body \in 0..4}

\* a client used on its own, with its login runs observed
RunsNext ==
    \/ AEnter /\ UNCHANGED <<appvars, ghosts>>
    \/ AExit /\ UNCHANGED <<appvars, ghosts>>
    \/ \E out \in RunOutcomes : RunLogin(out)
    \/ \E out \in RunOutcomes :
          get_portfolio_recommendation(out) /\ UNCHANGED <<appvars, ghosts>>
    \/ \E cb \in 1..Len(Callbacks) :
          extract_session_id_from_callback(cb) /\ UNCHANGED <<appvars, ghosts>>

RunsSpec == Init /\ [][RunsNext]_vars

(* ------------------------------------------------------------------ *)
(* The application: streamlit_app.py                                   *)
(*                                                                     *)
(* A script run is split at its awaits and at the widgets whose return *)
(* value decides the path; a button's return value is an input of the  *)
(* script.                                                             *)
(* ------------------------------------------------------------------ *)
MaxLogouts == 2

\* bool(v) of a Python value
Truthy(v) ==
    CASE v.t = "none"  -> FALSE
      [] v.t = "unset" -> FALSE
      [] v.t = "str"   -> Len(v.s) > 0
      [] v.t = "int"   -> v.i # 0
      [] v.t = "list"  -> Len(v.l) > 0
      [] v.t = "dict"  -> Len(v.d) > 0
      [] OTHER         -> TRUE

\* f"{v}" of a str or of None
Formatted(v) == IF v.t = "str" THEN v.s ELSE <<"None">>

\* the three states of the session state machine, read off st.session_state
SessionState(s) ==
    IF s.authenticated THEN "Authenticated"
    ELSE IF s.login_url # PyNone THEN "PendingLogin"
    ELSE "Unauthenticated"

\* the dict the form handler stores; its values come from the calculator
K_allocation == <<"a","l","l","o","c","a","t","i","o","n">>

CalcResult == PyDict(<< <<K_allocation, PyStr(<<"PortfolioAllocation">>)>> >>)

\* KiteMCPClient(): a new client object
NewClient ==
    /\ session' = "none"
    /\ session_id' = PyNone
    /\ authenticated' = FALSE
    /\ pc' = "idle"
    /\ attempt' = 0
    /\ call' = NewCall("none", "none")
    /\ ret' = NoRet

\* Connect button clicked while not authenticated: initialize_kite_mcp starts
AppConnect ==
    /\ app = "idle"
    /\ ~st.authenticated
    /\ NewClient
    /\ app' = "c_new"
    /\ result' = NoResult
    /\ logouts' = 0
    /\ UNCHANGED <<st, ghosts>>

\* async with KiteMCPClient() as client: __aenter__
AppEnter ==
    /\ app \in {"c_new", "a_new"}
    /\ AEnter
    /\ app' = IF app = "c_new" THEN "c_scope" ELSE "a_scope"
    /\ UNCHANGED <<st, result, logouts, ghosts>>

\* await client.initialize_connection()
AppInitCall ==
    /\ app = "c_scope"
    /\ initialize_connection
    /\ app' = "c_init"
    /\ UNCHANGED <<st, result, logouts, ghosts>>

AppInitAttempt(out) ==
    /\ app = "c_init"
    /\ InitAttempt(out)
    /\ UNCHANGED <<appvars, ghosts>>

\* lines 122-123: a failed handshake ends the helper
AppAfterInit ==
    /\ app = "c_init"
    /\ pc = "idle"
    /\ IF ~ret.val.success
       THEN /\ result' = [ok |-> FALSE, raised |-> FALSE,
                          val |-> PyStr(<<"Connection failed: ">> \o Formatted(ret.val.error))]
            /\ app' = "c_exit"
       ELSE /\ result' = result
            /\ app' = "c_login"
    /\ UNCHANGED <<client, st, logouts, ghosts>>

\* st.session_state after lines 126-131 for the login envelope
StoreLoginUrl(s, login_response) ==
    IF login_response.success /\ Truthy(login_response.login_url)
    THEN [s EXCEPT !.login_url = login_response.login_url]
    ELSE s

\* the (success, message) pair of lines 127-131
LoginResult(login_response) ==
    IF login_response.success /\ Truthy(login_response.login_url)
    THEN [ok |-> TRUE, raised |-> FALSE, val |-> PyStr(<<"Connection successful">>)]
    ELSE [ok |-> FALSE, raised |-> FALSE,
          val |-> PyStr(<<"Login request failed: ">> \o Formatted(login_response.error))]

\* await client.request_login() and lines 127-131
AppLogin(out) ==
    /\ app = "c_login"
    /\ request_login(out)
    /\ st' = StoreLoginUrl(st, ret'.val)
    /\ result' = LoginResult(ret'.val)
    /\ app' = "c_exit"
    /\ UNCHANGED <<logouts, ghosts>>

\* an exception raised inside the async with block (a cancellation, an
\* interrupt): the block is left through __aexit__
AppRaise ==
    /\ app \in {"c_scope", "c_init", "c_login", "a_scope"}
    /\ pc' = "idle"
    /\ result' = [ok |-> FALSE, raised |-> TRUE, val |-> PyNone]
    /\ app' = IF app = "a_scope" THEN "a_exit" ELSE "c_exit"
    /\ UNCHANGED <<session, session_id, authenticated, attempt, call, ret, st, logouts, ghosts>>

\* where the script goes after initialize_kite_mcp: lines 156-158
AfterConnect(s, res) == IF res.ok /\ Truthy(s.login_url) THEN "verify" ELSE "idle"

\* st.session_state after get_mcp_recommendation: lines 259-263
StoreRecommendation(s, res) ==
    IF res.ok THEN [s EXCEPT !.mcp_recommendation = res.val] ELSE s

\* the async with block is left: __aexit__, then the caller goes on
AppScopeExit ==
    /\ app \in {"c_exit", "a_exit"}
    /\ AExit
    /\ IF app = "c_exit"
       THEN /\ app' = AfterConnect(st, result)
            /\ st' = st
       ELSE /\ app' = "idle"
            /\ st' = StoreRecommendation(st, result)
    /\ UNCHANGED <<result, logouts, ghosts>>

\* lines 169-175: the Verify handler on the pasted callback text
VerifyState(s, callback_url) ==
    IF Truthy(callback_url) /\ PyIn(SESSION_MARKER, callback_url) = "T"
    THEN [s EXCEPT !.authenticated = TRUE]
    ELSE s

\* the Verify button, rendered in the run in which Connect succeeded, is clicked
AppVerify(cb) ==
    /\ app = "verify"
    /\ Callbacks[cb].t = "str"
    /\ st' = VerifyState(st, Callbacks[cb])
    /\ app' = "idle"
    /\ logouts' = 0
    /\ UNCHANGED <<client, result, ghosts>>

\* the run ends without a click on Verify
AppNoVerify ==
    /\ app = "verify"
    /\ app' = "idle"
    /\ UNCHANGED <<client, st, result, logouts, ghosts>>

LogoutState_KeepsUrl(s) == [s EXCEPT !.authenticated = FALSE]

LogoutState_DropsResult(s) ==
    [s EXCEPT !.authenticated = FALSE, !.login_url = PyNone, !.portfolio_result = PyNone]

\* lines 181-182: the Logout handler
LogoutState(s) == [s EXCEPT !.authenticated = FALSE, !.login_url = PyNone]

\* the Logout button, rendered only while authenticated, is clicked
AppLogout ==
    /\ app = "idle"
    /\ st.authenticated
    /\ logouts < MaxLogouts
    /\ st' = LogoutState(st)
    /\ logouts' = logouts + 1
    /\ UNCHANGED <<client, app, result, ghosts>>

AppSubmit_NoGate ==
    /\ app = "idle"
    /\ st' = [st EXCEPT !.portfolio_result = CalcResult]
    /\ logouts' = 0
    /\ result' = NoResult
    /\ NewClient
    /\ app' = "a_new"
    /\ UNCHANGED ghosts

\* the form is submitted: lines 244-259
AppSubmit ==
    /\ app = "idle"
    /\ st' = [st EXCEPT !.portfolio_result = CalcResult]
    /\ logouts' = 0
    /\ result' = NoResult
    /\ IF st.authenticated
       THEN /\ NewClient
            /\ app' = "a_new"
       ELSE /\ UNCHANGED client
            /\ app' = "idle"
    /\ UNCHANGED ghosts

\* the (success, value) pair of lines 141-144
AdviceResult(response) ==
    IF response.success
    THEN [ok |-> TRUE, raised |-> FALSE, val |-> response.data]
    ELSE [ok |-> FALSE, raised |-> FALSE, val |-> response.error]

\* await client.get_portfolio_recommendation(...)
AppAdvice(out) ==
    /\ app = "a_scope"
    /\ get_portfolio_recommendation(out)
    /\ result' = AdviceResult(ret'.val)
    /\ app' = "a_exit"
    /\ UNCHANGED <<st, logouts, ghosts>>

AppNext ==
    \/ AppConnect
    \/ AppEnter
    \/ AppInitCall
    \/ \E out \in ServerOutcomes : AppInitAttempt(out)
    \/ AppAfterInit
    \/ \E out \in ServerOutcomes : AppLogin(out)
    \/ AppRaise
    \/ AppScopeExit
    \/ \E cb \in 1..Len(Callbacks) : AppVerify(cb)
    \/ AppNoVerify
    \/ AppLogout
    \/ AppSubmit
    \/ \E out \in ServerOutcomes : AppAdvice(out)

AppSpec == Init /\ [][AppNext]_vars

(* ------------------------------------------------------------------ *)
(* Properties                                                          *)
(* ------------------------------------------------------------------ *)
ClientOps == {"initialize_connection", "request_login", "get_portfolio_recommendation"}

SingleOps == {"request_login", "get_portfolio_recommendation"}

Finished(ops) == call.op \in ops /\ call.done

LastAttempt == call.log[Len(call.log)]

IsEnvelope(r) ==
    /\ ~r.raised
    /\ DOMAIN r.val = {"success", "data", "error", "login_url"}
    /\ r.val.success \in BOOLEAN

NonEmptyMessage(e) == e.t = "str" /\ Len(e.s) > 0 /\ \A i \in 1..Len(e.s) : e.s[i] # ""

ExhaustionMessage == PyStr(<<"Failed to initialize MCP connection after all retries">>)

\* the message contains the decimal digits of the status
EmbedsStatus(e, n) == e.t = "str" /\ \E i \in 1..Len(e.s) : e.s[i] = ToString(n)

C1_Envelope ==
    Finished(ClientOps) =>
        /\ IsEnvelope(ret)
        /\ LastAttempt.cls # "ok" => ~ret.val.success
        /\ ~ret.val.success => NonEmptyMessage(ret.val.error)

\* C1: whatever the server does (any status, transport fault, undecodable
\* body, payload of any shape) and also without a transport session, each of
\* initialize_connection, request_login and get_portfolio_recommendation
\* terminates by returning an MCPResponse, no exception escapes, and every
\* fault ends as an envelope with success=false and a non-empty error message.
C1_NeverRaises == [](C1_Envelope) /\ ((pc = "init") ~> (pc = "idle"))

C1_Witness ==
    /\ Finished({"request_login"})
    /\ call.sess = "none"
    /\ IsEnvelope(ret)
    /\ ~ret.val.success

\* C2: with a transport session, the handshake sends one request per attempt,
\* stops at the first attempt that succeeds (status 200 with a decoded body)
\* and otherwise after 3 attempts; it returns success with the payload of that
\* first successful attempt and sends nothing after it.
C2_AttemptCount ==
    (call.op = "initialize_connection" /\ call.sess = "open") =>
        LET n == Len(call.log)
        IN  /\ call.requests = n
            /\ n <= 3
            /\ \A i \in 1..(n - 1) : call.log[i].cls # "ok"
            /\ ~call.done => (n < 3 /\ \A i \in 1..n : call.log[i].cls # "ok")
            /\ call.done =>
                 IF call.log[n].cls = "ok"
                 THEN /\ IsEnvelope(ret)
                      /\ ret.val.success
                      /\ ret.val.data = Payloads[call.log[n].body]
                 ELSE /\ n = 3
                      /\ ~ret.val.success

C2_Witness ==
    /\ Finished({"initialize_connection"})
    /\ call.sess = "open"
    /\ Len(call.log) = 2
    /\ call.log[1].cls = "status"
    /\ call.log[2].cls = "ok"
    /\ ret.val.success

\* the sleeps the retry policy prescribes after the first f failed attempts
PolicySleeps(f) ==
    [k \in 1..(IF f < 2 THEN f ELSE 2) |-> [after |-> k - 1, dur |-> IF k = 1 THEN 1 ELSE 2]]

FailedAttempts == Cardinality({i \in 1..Len(call.log) : call.log[i].cls # "ok"})

\* C3: in the handshake, after every failed attempt k in {0,1}, failed by a
\* transport fault or by a non-200 status alike, the client sleeps exactly 2^k
\* units before attempt k+1 (500, 500, 200 records the sleeps 1 and 2).
C3_BackoffAfterEveryFailure ==
    call.op = "initialize_connection" => call.sleeps = PolicySleeps(FailedAttempts)

\* C4: when all 3 handshake attempts fail, the result is success=false with
\* the fixed exhaustion message whatever the causes were; no execution has more
\* than two backoff sleeps and none follows the last attempt.
C4_Exhaustion ==
    call.op = "initialize_connection" =>
        /\ Len(call.sleeps) <= 2
        /\ \A i \in 1..Len(call.sleeps) : call.sleeps[i].after < 2
        /\ call.done =>
             /\ \A i \in 1..Len(call.sleeps) : call.sleeps[i].after < Len(call.log) - 1
             /\ LastAttempt.cls # "ok" =>
                  /\ Len(call.log) = 3
                  /\ IsEnvelope(ret)
                  /\ ~ret.val.success
                  /\ ret.val.error = ExhaustionMessage

C4_Witness ==
    /\ Finished({"initialize_connection"})
    /\ Len(call.log) = 3
    /\ call.log[1].cls = "status"
    /\ call.log[2].cls = "undecodable"
    /\ call.log[3].cls = "fault"
    /\ Len(call.sleeps) = 1
    /\ ret.val.error = ExhaustionMessage

\* C5: in every returned envelope the error is present if and only if success
\* is false (so success=true and error-present exclude each other).
C5_ErrorIffFailure ==
    Finished(ClientOps) => (ret.val.success <=> ret.val.error = PyNone)

C5_Witness ==
    /\ Finished({"get_portfolio_recommendation"})
    /\ LastAttempt.cls = "fault"
    /\ ~ret.val.success
    /\ ret.val.error.t = "str"

\* C6: login_url is populated only by request_login and only on success; data
\* is populated only on success and only by initialize_connection and
\* get_portfolio_recommendation.
C6_FieldOwnership ==
    Finished(ClientOps) =>
        /\ ret.val.login_url # PyNone => (call.op = "request_login" /\ ret.val.success)
        /\ ret.val.data # PyNone =>
             (ret.val.success /\ call.op \in {"initialize_connection", "get_portfolio_recommendation"})

C6_Witness ==
    /\ Finished({"request_login"})
    /\ ret.val.success
    /\ ret.val.login_url.t = "str"
    /\ ret.val.data = PyNone

\* C7 as stated: for all three operations success=true only for status 200,
\* and every non-200 response leads to a failure envelope whose error message
\* embeds the numeric status.
C7_StatusAlwaysEmbedded ==
    Finished(ClientOps) =>
        /\ ret.val.success => (LastAttempt.cls = "ok" /\ LastAttempt.status = 200)
        /\ \A i \in 1..Len(call.log) :
             call.log[i].cls = "status" =>
                 (~ret.val.success /\ EmbedsStatus(ret.val.error, call.log[i].status))

\* C7 (amended): success=true only for a response with status 200; for
\* request_login and get_portfolio_recommendation a non-200 response gives a
\* failure envelope whose message embeds the status; in initialize_connection a
\* non-200 response is a failed attempt, and when it is the last one the
\* envelope is the fixed exhaustion message, which carries no status.
C7_StatusDiscriminator ==
    Finished(ClientOps) =>
        /\ ret.val.success => (LastAttempt.cls = "ok" /\ LastAttempt.status = 200)
        /\ (call.op \in SingleOps /\ LastAttempt.cls = "status") =>
             (~ret.val.success /\ EmbedsStatus(ret.val.error, LastAttempt.status))
        /\ (call.op = "initialize_connection" /\ LastAttempt.cls = "status") =>
             (~ret.val.success /\ ret.val.error = ExhaustionMessage
              /\ ~EmbedsStatus(ret.val.error, LastAttempt.status))

C7_Witness ==
    /\ Finished({"request_login"})
    /\ LastAttempt.cls = "status"
    /\ LastAttempt.status = 204
    /\ EmbedsStatus(ret.val.error, 204)

\* C8 as stated: request_login and get_portfolio_recommendation send exactly
\* one request per call in every execution, never retry and never sleep.
C8_ExactlyOneRequest ==
    Finished(SingleOps) =>
        /\ call.requests = 1
        /\ Len(call.log) = 1
        /\ call.sleeps = <<>>

\* C8 (amended): request_login and get_portfolio_recommendation make one
\* attempt per call: exactly one request when the client holds an open
\* transport session, none when it holds no session or a closed one; a fault,
\* a non-200 status, an undecodable body or an extraction failure is never
\* retried or followed by a sleep and is returned as a failure envelope.
C8_SingleAttempt ==
    Finished(SingleOps) =>
        /\ call.requests = IF call.sess = "open" THEN 1 ELSE 0
        /\ Len(call.log) = 1
        /\ call.sleeps = <<>>
        /\ pc = "idle"
        /\ (LastAttempt.cls # "ok" \/ (ret.val.login_url = PyNone /\ call.op = "request_login"))
             => ~ret.val.success

C8_Witness ==
    /\ Finished({"request_login"})
    /\ call.sess = "open"
    /\ LastAttempt.cls = "ok"
    /\ ret.val.error = PyStr(<<"Invalid response format">>)
    /\ call.requests = 1

\* C9: extract_session_id_from_callback on a text containing "session_id="
\* sets session_id and authenticated=true together and returns the id; without
\* the marker, or on an unusable input, it returns None and leaves both fields
\* as they were; no step updates only one of the two fields.
C9_AtomicExtraction ==
    [][ /\ \A cb \in 1..Len(Callbacks) :
             extract_session_id_from_callback(cb) =>
                 IF Callbacks[cb].t = "str" /\ Contains(Callbacks[cb].s, SESSION_MARKER)
                 THEN /\ authenticated'
                      /\ session_id'.t = "str"
                      /\ ret' = Returned(session_id')
                 ELSE /\ ret' = Returned(PyNone)
                      /\ session_id' = session_id
                      /\ authenticated' = authenticated
        /\ (session_id' # session_id \/ authenticated' # authenticated) =>
             (authenticated' /\ session_id' # PyNone)
        /\ authenticated' <=> session_id' # PyNone
      ]_vars

C9_Witness ==
    /\ Finished({"extract_session_id_from_callback"})
    /\ call.log[1].body = 1
    /\ session_id = PyStr(C_abc)
    /\ authenticated
    /\ ret = Returned(PyStr(C_abc))

\* C10 as stated: the Session is created empty and mutated exactly once; after
\* a first successful extraction no later operation changes session_id or
\* authenticated.
C10_MutatedOnce ==
    /\ session_id = PyNone /\ ~authenticated
    /\ [][authenticated => (session_id' = session_id /\ authenticated' = authenticated)]_vars

\* C10 (amended): the Session is created empty and is changed only by a
\* successful extraction from a callback string; authenticated, once true,
\* stays true, and a later successful extraction overwrites session_id with
\* the newly extracted id; no other operation changes either field.
C10_MutatedOnlyByExtraction ==
    /\ session_id = PyNone /\ ~authenticated
    /\ [][ /\ authenticated => authenticated'
           /\ (session_id' # session_id \/ authenticated' # authenticated) =>
                /\ call'.op = "extract_session_id_from_callback"
                /\ session_id'.t = "str"
                /\ ret' = Returned(session_id')
         ]_vars

C10_Witness ==
    /\ Finished({"extract_session_id_from_callback"})
    /\ ret = Returned(PyNone)
    /\ authenticated
    /\ session_id = PyStr(C_xyz)


(* ------------------------------------------------------------------ *)
(* Extraction results                                                  *)
(* ------------------------------------------------------------------ *)
\* the part of s after the first occurrence of m (m occurs in s)
AfterFirst(s, m) == SubSeq(s, Find(s, m) + Len(m), Len(s))

\* the part of s before the first occurrence of sep, all of s without one
Before(s, sep) == IF Find(s, sep) = 0 THEN s ELSE SubSeq(s, 1, Find(s, sep) - 1)

\* result.content[0].text of a decoded body, None when the body has no such text
ContentText(p) ==
    IF /\ p.t = "dict" /\ HasKey(p.d, K_result)
       /\ GetKey(p.d, K_result).t = "dict"
       /\ HasKey(GetKey(p.d, K_result).d, K_content)
       /\ GetKey(GetKey(p.d, K_result).d, K_content).t = "list"
       /\ Len(GetKey(GetKey(p.d, K_result).d, K_content).l) > 0
       /\ GetKey(GetKey(p.d, K_result).d, K_content).l[1].t = "dict"
       /\ HasKey(GetKey(GetKey(p.d, K_result).d, K_content).l[1].d, K_text)
    THEN GetKey(GetKey(GetKey(p.d, K_result).d, K_content).l[1].d, K_text)
    ELSE PyNone

\* the text of the 200 response a finished request_login received
ReceivedText == ContentText(Payloads[LastAttempt.body])

LoginGot200 == Finished({"request_login"}) /\ LastAttempt.cls = "ok"

HasDomainText == ReceivedText.t = "str" /\ Contains(ReceivedText.s, LOGIN_DOMAIN)

\* C13: for a 200 response whose content text contains the login domain
\* literal, the returned login_url is the trimmed substring between the first
\* "URL: " and the next line break when the marker is present, and the trimmed
\* whole text otherwise.
C13_UrlBetweenMarkerAndLineBreak ==
    (LoginGot200 /\ HasDomainText) =>
        /\ ret.val.success
        /\ ret.val.login_url =
             PyStr(PyStrip(IF Contains(ReceivedText.s, URL_MARKER)
                           THEN Before(AfterFirst(ReceivedText.s, URL_MARKER), NEWLINE)
                           ELSE ReceivedText.s))

\* the callback handed to a finished extract_session_id_from_callback
ExtractArg == Callbacks[call.log[1].body]

\* C15: for every callback text containing "session_id=" the call returns the
\* substring after that marker, cut at the next "&" if one follows and else
\* running to the end of the string; for a text without the marker it returns
\* None.
C15_IdAfterMarker ==
    (Finished({"extract_session_id_from_callback"}) /\ ExtractArg.t = "str") =>
        IF Contains(ExtractArg.s, SESSION_MARKER)
        THEN ret = Returned(PyStr(Before(AfterFirst(ExtractArg.s, SESSION_MARKER), AMP)))
        ELSE ret = Returned(PyNone)

\* C20: whenever request_login returns success, its login_url is a non-empty
\* string that contains the login domain literal.
C20_UrlHasDomain ==
    (Finished({"request_login"}) /\ ret.val.success) =>
        /\ ret.val.login_url.t = "str"
        /\ Len(ret.val.login_url.s) > 0
        /\ Contains(ret.val.login_url.s, LOGIN_DOMAIN)


(* ------------------------------------------------------------------ *)
(* The session state machine of the application                        *)
(* ------------------------------------------------------------------ *)
AllowedTransitions ==
    { <<"Unauthenticated", "PendingLogin">>,
      <<"PendingLogin", "Authenticated">>,
      <<"Authenticated", "Unauthenticated">> }

\* The session state of the application only moves Unauthenticated ->
\* PendingLogin -> Authenticated and Authenticated -> Unauthenticated;
\* PendingLogin is entered only when request_login, after a successful
\* handshake, returned a URL; Authenticated is entered only from PendingLogin
\* by a callback text holding the session id marker.
App_StateMachine ==
    [][ /\ SessionState(st') # SessionState(st) =>
             <<SessionState(st), SessionState(st')>> \in AllowedTransitions
        /\ (SessionState(st') = "PendingLogin" /\ SessionState(st) # "PendingLogin") =>
             /\ call.op = "initialize_connection" /\ call.done /\ ret.val.success
             /\ call'.op = "request_login" /\ ret'.val.success
             /\ ret'.val.login_url.t = "str"
             /\ st'.login_url = ret'.val.login_url
        /\ (st'.authenticated /\ ~st.authenticated) =>
             /\ SessionState(st) = "PendingLogin"
             /\ \E cb \in 1..Len(Callbacks) : AppVerify(cb)
             /\ \A cb \in 1..Len(Callbacks) :
                  AppVerify(cb) =>
                      /\ Callbacks[cb].t = "str"
                      /\ Contains(Callbacks[cb].s, SESSION_MARKER)
        /\ st'.authenticated => st'.login_url # PyNone
      ]_vars

App_Authenticated ==
    /\ app = "idle"
    /\ SessionState(st) = "Authenticated"
    /\ st.login_url = PyStr(LOGIN_DOMAIN \o T_query)

\* C11: the session state machine only takes Unauthenticated -> PendingLogin
\* -> Authenticated and Authenticated -> Unauthenticated; Authenticated is
\* entered only from PendingLogin through a successful extraction of a session
\* id, so in no sequence of operations is the session authenticated without a
\* login URL having been obtained by request_login first.
C11_LoginUrlFirst == authenticated => logins.obtained

InScope == {"c_scope", "c_init", "c_login", "c_exit", "a_scope", "a_exit"}

\* C12: the transport session acquired on entering the client scope is closed
\* on every way out of it (normal return, failure envelope, exception inside
\* the scope); outside the scope no session of the client is open.
C12_SessionReleased ==
    /\ app \in InScope => session = "open"
    /\ app \in {"idle", "verify"} => session # "open"

C12_Witness ==
    /\ app = "idle"
    /\ result.raised
    /\ session = "closed"
    /\ call.op = "initialize_connection"
    /\ ~call.done

\* a 200 response without a content text holding the login domain literal
NoDomainBody(out) ==
    /\ out.kind = "resp" /\ out.status = 200 /\ out.body # 0
    /\ LET t == ContentText(Payloads[out.body])
       IN  ~(t.t = "str" /\ Contains(t.s, LOGIN_DOMAIN))

\* C14: a 200 login response whose content text lacks the domain literal, or
\* that lacks the result.content non-empty list shape, gives the failure
\* envelope with the fixed message "Invalid response format" and no login_url,
\* and leaves session_id, authenticated and the application's session state
\* as they were.
C14_InvalidFormat ==
    [][ \A out \in ServerOutcomes :
          (AppLogin(out) /\ NoDomainBody(out)) =>
              /\ ret' = Returned(MCPResponse(FALSE, PyNone,
                                 PyStr(<<"Invalid response format">>), PyNone))
              /\ session_id' = session_id
              /\ authenticated' = authenticated
              /\ st' = st
      ]_vars

LoginUrls == {PyNone, PyStr(LOGIN_DOMAIN), PyStr(LOGIN_DOMAIN \o T_query)}

Recommendations == {PyUnset} \cup {Payloads[i] : i \in 1..Len(Payloads)}

\* the values st.session_state can hold
StStates ==
    { s \in [authenticated : BOOLEAN, login_url : LoginUrls,
             portfolio_result : {PyNone, CalcResult},
             mcp_recommendation : Recommendations] :
        s.authenticated => s.login_url # PyNone }

\* C16: logout resets the session state to Unauthenticated and leaves no
\* session id and no authenticated flag of the previous login, whatever the
\* state it is applied to; it has no failing path.
C16_LogoutResets ==
    [][ /\ AppLogout =>
             /\ SessionState(st') = "Unauthenticated"
             /\ ~st'.authenticated
             /\ st'.login_url = PyNone
             /\ session_id' = PyNone
             /\ ~authenticated'
        /\ \A s \in StStates : SessionState(LogoutState(s)) = "Unauthenticated"
      ]_vars

C16_Witness ==
    /\ logouts = 1
    /\ app = "idle"
    /\ SessionState(st) = "Unauthenticated"
    /\ st.portfolio_result = CalcResult


\* C19: each request envelope carries an id greater than the id of every
\* request the client sent before it, handshake retries and repeated or
\* reordered calls included.
C19_IdsIncrease == sent.before # 0 => sent.last > sent.before


\* C18: two runs of request_login that receive the same status and the same
\* payload return the same (success, login_url) pair, whatever session_id,
\* authenticated and the calls made in between are; a 200 response whose text
\* lacks the domain literal, such as "no relevant content", never succeeds.
C18_SameAnswerSameResult ==
    [][ \A out \in RunOutcomes :
          (RunLogin(out) /\ Answered(session, out)) =>
              /\ (logins.first.seen /\ logins.first.status = out.status
                    /\ logins.first.body = out.body) =>
                     /\ ret'.val.success = logins.first.success
                     /\ ret'.val.login_url = logins.first.login_url
              /\ NoDomainBody(out) => ~ret'.val.success
      ]_vars

C18_Witness ==
    /\ Finished({"request_login"})
    /\ logins.first.seen
    /\ ~logins.first.auth
    /\ authenticated
    /\ session_id = PyStr(C_abc)
    /\ LastAttempt.cls = "ok"
    /\ LastAttempt.status = logins.first.status
    /\ LastAttempt.body = logins.first.body
    /\ logins.first.success
    /\ ret.val.success
    /\ ret.val.login_url = PyStr(LOGIN_DOMAIN \o T_query)


(* ------------------------------------------------------------------ *)
(* The Logout handler applied to every session state                  *)
(* ------------------------------------------------------------------ *)
LogoutInit ==
    /\ ClientInit
    /\ st \in StStates
    /\ app = "idle"
    /\ result = NoResult
    /\ logouts = 0
    /\ sent = NoneSent
    /\ logins = NoLogins

\* lines 181-182 run on the session state as it is
ApplyLogout ==
    /\ logouts < MaxLogouts
    /\ st' = LogoutState(st)
    /\ logouts' = logouts + 1
    /\ UNCHANGED <<client, app, result, ghosts>>

LogoutSpec == LogoutInit /\ [][ApplyLogout]_vars

\* C17: logout applied to a session that is already Unauthenticated leaves
\* the whole session state unchanged, and a logout after a logout changes
\* nothing more than the single logout did.
C17_LogoutIdempotent ==
    [][ ApplyLogout =>
          /\ SessionState(st) = "Unauthenticated" => st' = st
          /\ logouts >= 1 => st' = st
          /\ LogoutState(st') = st'
      ]_vars

C17_Witness ==
    /\ logouts = 2
    /\ SessionState(st) = "Unauthenticated"
    /\ st.portfolio_result = CalcResult
    /\ st.mcp_recommendation # PyUnset


(* ------------------------------------------------------------------ *)
(* The session fields of the client                                    *)
(* ------------------------------------------------------------------ *)
\* C21: in every reachable state of a client authenticated is true if and
\* only if session_id has been set, that is, is not the None it starts with.
C21_FieldsAgree == authenticated <=> session_id # PyNone

C21_Witness ==
    /\ Finished({"request_login"})
    /\ authenticated
    /\ session_id = PyStr(<<>>)

\* C22: initialize_connection, request_login and get_portfolio_recommendation
\* leave session_id and authenticated as they were, whether they succeed or
\* fail; a step that changes either field is a step of
\* extract_session_id_from_callback.
C22_Frame ==
    [][ /\ call'.op \in ClientOps =>
               (session_id' = session_id /\ authenticated' = authenticated)
        /\ (session_id' # session_id \/ authenticated' # authenticated) =>
               /\ call'.op = "extract_session_id_from_callback"
               /\ \E cb \in 1..Len(Callbacks) : extract_session_id_from_callback(cb)
      ]_vars

C22_Witness ==
    /\ Finished({"get_portfolio_recommendation"})
    /\ LastAttempt.cls = "status"
    /\ ~ret.val.success
    /\ authenticated
    /\ session_id = PyStr(C_xyz)

\* C23: in the application an advice request is sent only while the session
\* state is Authenticated: the helper that sends it runs only in that state,
\* never in Unauthenticated or PendingLogin, so none is sent after a logout
\* until a later Verify has authenticated the session again.
C23_AdviceOnlyAuthenticated ==
    [][ /\ (\E out \in ServerOutcomes : AppAdvice(out)) =>
               /\ SessionState(st) = "Authenticated"
               /\ SessionState(st') = "Authenticated"
        /\ (call' # call /\ call'.op = "get_portfolio_recommendation") =>
               SessionState(st) = "Authenticated"
        /\ app' \in {"a_new", "a_scope", "a_exit"} => SessionState(st') = "Authenticated"
      ]_vars

C23_Witness ==
    /\ app = "a_exit"
    /\ Finished({"get_portfolio_recommendation"})
    /\ call.requests = 1
    /\ LastAttempt.cls = "ok"
    /\ result.ok
    /\ SessionState(st) = "Authenticated"

====
